---- MODULE Spec2Model ----
(***************************************************************************)
(* Neuron-astrocyte associative memory network: the simulation cell of the *)
(* tutorial notebook (parameters, memory bank, corrupted seed, initial     *)
(* states, explicit Euler loop, distance report) as a state machine.       *)
(*                                                                         *)
(* Numbers.  A torch float is modelled as a fixed-point number: the        *)
(* integer v stands for v / Scale.  The IEEE special values are kept:      *)
(* PosInf, NegInf and NaN, with the IEEE rules for them (inf - inf = NaN,  *)
(* inf * 0 = NaN, NaN absorbs).  The format has resolution 1 / Scale where *)
(* float32 has 2^-24, so tanh rounds to exactly 1 from an argument of      *)
(* about 3 where float32 does from about 9.02; BetaVals holds a gain below *)
(* and a gain above that point.                                            *)
(***************************************************************************)
EXTENDS Integers, Sequences, FiniteSets, TLC

\* ---------------------------------------------------------------- bounds
Scale == 100
MaxN == 2
MaxK == 1
MaxSteps == 2
MaxCN == 2
MaxCK == 2
MaxLen == 3

\* ------------------------------------------------------- extended numbers
PosInf == 1000000000
NegInf == -PosInf
NaN == 2000000000

IsFin(a) == a # NaN /\ a # PosInf /\ a # NegInf

Abs(a) == IF a < 0 THEN -a ELSE a
Sgn(a) == IF a > 0 THEN 1 ELSE IF a < 0 THEN -1 ELSE 0

\* n / d rounded to the nearest integer, halves away from zero (d > 0).
RoundDiv(n, d) ==
  IF n >= 0 THEN (2 * n + d) \div (2 * d) ELSE -((2 * (-n) + d) \div (2 * d))

\* unary minus of a float
Neg(a) == IF a = NaN THEN NaN ELSE -a

\* float + float
Add(a, b) ==
  IF a = NaN \/ b = NaN THEN NaN
  ELSE IF a = PosInf THEN (IF b = NegInf THEN NaN ELSE PosInf)
  ELSE IF a = NegInf THEN (IF b = PosInf THEN NaN ELSE NegInf)
  ELSE IF b = PosInf \/ b = NegInf THEN b
  ELSE a + b

\* (integer k) * float: beta * x, and the +-1 factors of the einsum
MulInt(k, a) ==
  IF a = NaN THEN NaN
  ELSE IF a = PosInf \/ a = NegInf
       THEN (IF k = 0 THEN NaN ELSE IF k > 0 THEN a ELSE -a)
  ELSE k * a

\* float * float, both fixed-point
Mul(a, b) ==
  IF a = NaN \/ b = NaN THEN NaN
  ELSE IF ~IsFin(a) \/ ~IsFin(b)
       THEN (IF a = 0 \/ b = 0 THEN NaN
             ELSE IF Sgn(a) * Sgn(b) > 0 THEN PosInf ELSE NegInf)
  ELSE RoundDiv(a * b, Scale)

\* (1 / d) * float for a python int d > 0: (1 / beta) * t, (1 / N ** 3) * t
DivInt(a, d) ==
  IF a = NaN THEN NaN
  ELSE IF a = PosInf \/ a = NegInf THEN a
  ELSE RoundDiv(a, d)

\* torch.tanh of a finite a >= 0: the Pade approximant z (27 + z^2) / (27 + 9 z^2),
\* which reaches 1 at z = 3, rounded to the format; exactly 1 from there on.
TanhPos(a) ==
  IF a >= 3 * Scale THEN Scale
  ELSE RoundDiv(a * (27 * Scale * Scale + a * a), 27 * Scale * Scale + 9 * a * a)

\* torch.tanh
Tanh(a) ==
  IF a = NaN THEN NaN
  ELSE IF a = PosInf THEN Scale
  ELSE IF a = NegInf THEN -Scale
  ELSE IF a >= 0 THEN TanhPos(a) ELSE -TanhPos(-a)

\* torch.atanh on [0, 1): the least argument whose tanh reaches y.
AtanhPos(y) ==
  CHOOSE a \in 0..(3 * Scale) : TanhPos(a) >= y /\ (a = 0 \/ TanhPos(a - 1) < y)

\* AtanhPos tabulated: entry y + 1 holds AtanhPos(y)
RECURSIVE AtanhUpTo(_)
AtanhUpTo(n) == IF n = 0 THEN << >> ELSE Append(AtanhUpTo(n - 1), AtanhPos(n - 1))
AtanhTable == AtanhUpTo(Scale)

\* torch.atanh: +-inf at +-1, NaN outside [-1, 1]
Atanh(y) ==
  IF y = NaN \/ y = PosInf \/ y = NegInf THEN NaN
  ELSE IF y > Scale \/ y < -Scale THEN NaN
  ELSE IF y = Scale THEN PosInf
  ELSE IF y = -Scale THEN NegInf
  ELSE IF y >= 0 THEN AtanhTable[y + 1] ELSE -AtanhTable[1 - y]

\* torch.sign: NaN stays NaN
Sign(a) ==
  IF a = NaN THEN NaN
  ELSE IF a = PosInf THEN 1
  ELSE IF a = NegInf THEN -1
  ELSE Sgn(a)

\* sum of f[1] .. f[n], left to right
RECURSIVE SumTo(_, _)
SumTo(f, n) == IF n = 0 THEN 0 ELSE Add(SumTo(f, n - 1), f[n])


\* ---------------------------------------------------------------- tensors
Idx(n) == 1..n

\* a vector / a matrix as the explicit tuple of its entries (the same tensor)
RECURSIVE Vec(_, _)
Vec(f, n) == IF n = 0 THEN << >> ELSE Append(Vec(f, n - 1), f[n])
RECURSIVE MatTo(_, _, _)
MatTo(f, r, n) == IF r = 0 THEN << >> ELSE Append(MatTo(f, r - 1, n), Vec(f[r], n))
Mat(f, n) == MatTo(f, n, n)

Pow3(n) == n * n * n

\* Contract with the index of etas's second factor lost: 'im,km,lm,kl->i', a
\* vector that the addition then broadcasts along the rows.
ContractBroadcast(etas, psiv, n, k) ==
  Mat([i \in Idx(n) |-> [j \in Idx(n) |->
     SumTo([m \in Idx(k) |->
       SumTo([kk \in Idx(n) |->
         SumTo([l \in Idx(n) |->
           MulInt(etas[j][m] * etas[kk][m] * etas[l][m], psiv[kk][l])],
           n)], n)], k)]], n)

\* Contract with a memory index of its own for the pair (k, l):
\* 'im,jm,kn,ln,kl->ij', which is M[i,j] * sum_n v_n.
ContractSeparateIndex(etas, psiv, n, k) ==
  Mat([i \in Idx(n) |-> [j \in Idx(n) |->
     SumTo([m \in Idx(k) |->
       SumTo([mm \in Idx(k) |->
         SumTo([kk \in Idx(n) |->
           SumTo([l \in Idx(n) |->
             MulInt(etas[i][m] * etas[j][m] * etas[kk][mm] * etas[l][mm], psiv[kk][l])],
             n)], n)], k)], k)]], n)

\* torch.einsum('im,jm,km,lm,kl->ij', etas, etas, etas, etas, psi): one shared
\* memory index m, summed with k and l.
Contract(etas, psiv, n, k) ==
  Mat([i \in Idx(n) |-> [j \in Idx(n) |->
     SumTo([m \in Idx(k) |->
       SumTo([kk \in Idx(n) |->
         SumTo([l \in Idx(n) |->
           MulInt(etas[i][m] * etas[j][m] * etas[kk][m] * etas[l][m], psiv[kk][l])],
           n)], n)], k)]], n)

\* torch.tanh(beta * x), x a vector
TanhVec(beta, v) == Vec([i \in DOMAIN v |-> Tanh(MulInt(beta, v[i]))], Len(v))

\* torch.tanh(beta * M), M a matrix
TanhMat(beta, M) ==
  Mat([i \in DOMAIN M |-> [j \in DOMAIN M[i] |-> Tanh(MulInt(beta, M[i][j]))]], Len(M))

\* S @ h
MatVec(M, v) ==
  Vec([i \in DOMAIN M |-> SumTo([j \in DOMAIN v |-> Mul(M[i][j], v[j])], Len(v))], Len(M))

\* torch.outer(a, b)
Outer(a, b) == Mat([i \in DOMAIN a |-> [j \in DOMAIN b |-> Mul(a[i], b[j])]], Len(a))

\* torch.norm(torch.sign(v) - mem), squared: the sum of the squared differences
\* (NaN when an entry of v is NaN).
SqDist(v, memv) ==
  SumTo([i \in DOMAIN v |->
           IF Sign(v[i]) = NaN THEN NaN
           ELSE (Sign(v[i]) - memv[i]) * (Sign(v[i]) - memv[i])], Len(v))

\* ------------------------------------------------------ the helper function
\* generate_corruption_vector(length, corruption, device), rand being
\* the draw of torch.rand(length): torch.where(rand <= 1 - corruption, 1, -1)
generate_corruption_vector(rand, corruption) ==
  Vec([i \in DOMAIN rand |-> IF rand[i] <= Scale - corruption THEN 1 ELSE -1], Len(rand))

\* ------------------------------------------------------------ configuration
NVals == (-1)..MaxN
KVals == (-1)..MaxK
StepVals == (-1)..MaxSteps
DtVals == {0, Scale \div 4}
BetaVals == {0, 1, 4}
\* corruption_level of the cell: none, a half, and one outside [0, 1]
CorruptionVals == {0, Scale \div 2, Scale + Scale \div 2}
\* corruption handed to a stand-alone call of generate_corruption_vector
CorruptionArgs == {0, Scale \div 2, Scale, Scale + Scale \div 2}
SeedVals == (-1)..MaxK
\* torch.rand draws from [0, 1): the least value, a middle one and the greatest
DrawVals == {0, Scale \div 2, Scale - 1}
PsiVals == {-Scale, Scale \div 3}

Configs ==
  [N : NVals, K : KVals, NUM_STEPS : StepVals, dt : DtVals, beta : BetaVals,
   corruption_level : CorruptionVals, memory_to_seed_from : SeedVals]

\* ------------------------------------------------------------------- state
VARIABLES
  cfg,               \* the parameters of the cell (lines 102-107, 113)
  pc,                \* the statement the cell is at
  err,               \* the exception that ended the cell, "" if none
  names,             \* the python names bound so far
  heap,              \* tensor objects: object id -> value
  ref,               \* the objects the names x, S, P are bound to
  mem,               \* mem is a view of etas: the column it shows (1-based)
  random_vector,     \* stand-alone call: torch.rand's draw in generate_corruption_vector
  output_vector,     \* stand-alone call: what generate_corruption_vector returned
  h, g, psi,         \* the activations of the latest iteration
  it,                \* iterations of the loop completed
  initial_distance, final_distance,
  c_psi, c_out       \* argument and result of a stand-alone contraction

vars == <<cfg, pc, err, names, heap, ref, mem, random_vector, output_vector,
          h, g, psi, it, initial_distance, final_distance, c_psi, c_out>>

Objs == {"etas", "x0", "psi_0", "P0", "S0", "x", "S", "P"}

None == << >>

\* the tensors behind the names
MemVec(hp, col, n) == Vec([i \in Idx(n) |-> hp["etas"][i][col]], n)
x == heap[ref["x"]]
S == heap[ref["S"]]
P == heap[ref["P"]]
x0 == heap["x0"]
S0 == heap["S0"]
P0 == heap["P0"]


\* ------------------------------------------------------------- statements
\* line 110: the values torch.randint can give 2 * randint(2, (N, K)).float() - 1
MemoryBanks(n, k) == [Idx(n) -> [Idx(k) -> {-1, 1}]]

\* line 114: etas[:, memory_to_seed_from], python's index rule; 0 is IndexError
Column(seed, k) ==
  IF seed >= 0 /\ seed < k THEN seed + 1
  ELSE IF seed < 0 /\ seed >= -k THEN seed + k + 1
  ELSE 0

\* line 117: mem * generate_corruption_vector(...)
SeedVector(memv, cv) == Vec([i \in DOMAIN memv |-> memv[i] * cv[i] * Scale], Len(memv))

\* line 120: -torch.outer(torch.tanh(beta * x0), torch.tanh(beta * x0))
Psi0(x0v, beta) ==
  LET t == TanhVec(beta, x0v)
      o == Outer(t, t)
  IN Mat([i \in DOMAIN o |-> [j \in DOMAIN o[i] |-> Neg(o[i][j])]], Len(x0v))

\* line 121: (1 / beta) * torch.atanh(psi_0)
InitP(psi0v, beta) ==
  Mat([i \in DOMAIN psi0v |-> [j \in DOMAIN psi0v[i] |-> DivInt(Atanh(psi0v[i][j]), beta)]],
      Len(psi0v))

\* line 122: (1 / beta) * torch.atanh(-(1 / N ** 3) * torch.einsum(...))
InitS(etas, psi0v, beta, n, k) ==
  LET c == Contract(etas, psi0v, n, k)
  IN Mat([i \in Idx(n) |-> [j \in Idx(n) |->
        DivInt(Atanh(Neg(DivInt(c[i][j], Pow3(n)))), beta)]], n)

\* Clone without the copy: x = x0, the name bound to the object itself
CloneAlias(hp, src, dst) == [obj |-> src, heap |-> hp]

\* tensor.clone(): a new object dst holding a copy of src
Clone(hp, src, dst) == [obj |-> dst, heap |-> [hp EXCEPT ![dst] = hp[src]]]

\* line 133: x += dt * (-x + S @ h), in place on the object x names
UpdateX(hp, rf, c, hv) ==
  LET xv == hp[rf["x"]]
      sh == MatVec(hp[rf["S"]], hv)
  IN [hp EXCEPT ![rf["x"]] =
        Vec([i \in DOMAIN xv |-> Add(xv[i], Mul(c.dt, Add(Neg(xv[i]), sh[i])))], Len(xv))]

\* UpdateS taking the activation of x as it is now, after line 133:
\* S += dt * (-S + torch.outer(tanh(beta * x), tanh(beta * x)) + psi)
UpdateSFromNewX(hp, rf, c, hv, psiv) ==
  LET Sv == hp[rf["S"]]
      hn == TanhVec(c.beta, hp[rf["x"]])
      o == Outer(hn, hn)
  IN [hp EXCEPT ![rf["S"]] =
        Mat([i \in DOMAIN Sv |-> [j \in DOMAIN Sv[i] |->
           Add(Sv[i][j], Mul(c.dt, Add(Add(Neg(Sv[i][j]), o[i][j]), psiv[i][j])))]],
            Len(Sv))]

\* line 134: S += dt * (-S + torch.outer(h, h) + psi), in place
UpdateS(hp, rf, c, hv, psiv) ==
  LET Sv == hp[rf["S"]]
      o == Outer(hv, hv)
  IN [hp EXCEPT ![rf["S"]] =
        Mat([i \in DOMAIN Sv |-> [j \in DOMAIN Sv[i] |->
           Add(Sv[i][j], Mul(c.dt, Add(Add(Neg(Sv[i][j]), o[i][j]), psiv[i][j])))]],
            Len(Sv))]

\* line 135: P += dt * (-P + (1 / N ** 3) * torch.einsum(...) + g), in place
UpdateP(hp, rf, c, psiv, gv) ==
  LET Pv == hp[rf["P"]]
      ct == Contract(hp["etas"], psiv, c.N, c.K)
  IN [hp EXCEPT ![rf["P"]] =
        Mat([i \in DOMAIN Pv |-> [j \in DOMAIN Pv[i] |->
           Add(Pv[i][j],
               Mul(c.dt, Add(Add(Neg(Pv[i][j]), DivInt(ct[i][j], Pow3(c.N))), gv[i][j])))]],
            Len(Pv))]

\* lines 129-135: one iteration, statement after statement on the heap
LoopBody(hp, rf, c) ==
  LET hv == TanhVec(c.beta, hp[rf["x"]])
      gv == TanhMat(c.beta, hp[rf["S"]])
      psiv == TanhMat(c.beta, hp[rf["P"]])
      hp1 == UpdateX(hp, rf, c, hv)
      hp2 == UpdateS(hp1, rf, c, hv, psiv)
      hp3 == UpdateP(hp2, rf, c, psiv, gv)
  IN [heap |-> hp3, h |-> hv, g |-> gv, psi |-> psiv]

\* RangeLen of range(NUM_STEPS + 1)
RangeLenInclusive(n) == IF n < 0 THEN 0 ELSE n + 1

\* range(NUM_STEPS): the number of iterations it yields
RangeLen(n) == IF n < 0 THEN 0 ELSE n

\* ------------------------------------------------------------------ actions
\* line 128: the for statement has another index to hand out
MoreIterations == it < RangeLen(cfg.NUM_STEPS)

Raise(e) == pc' = "error" /\ err' = e

Init ==
  /\ cfg \in Configs
  /\ pc = "etas"
  /\ err = ""
  /\ names = {}
  /\ heap = [o \in Objs |-> None]
  /\ ref = [n \in {"x", "S", "P"} |-> n]
  /\ mem = 0
  /\ random_vector = None /\ output_vector = None
  /\ h = None /\ g = None /\ psi = None
  /\ it = 0
  /\ initial_distance = 0 /\ final_distance = 0
  /\ c_psi = None /\ c_out = None

\* line 110: etas = 2 * torch.randint(2, (N, K)).float() - 1
GenerateMemories ==
  /\ pc = "etas"
  /\ IF cfg.N < 0 \/ cfg.K < 0
     THEN /\ Raise("RuntimeError")
          /\ UNCHANGED <<names, heap>>
     ELSE /\ \E e \in MemoryBanks(cfg.N, cfg.K) : heap' = [heap EXCEPT !["etas"] = e]
          /\ names' = names \cup {"etas"}
          /\ pc' = "mem"
          /\ err' = err
  /\ UNCHANGED <<cfg, ref, mem, random_vector, output_vector, h, g, psi, it,
                 initial_distance, final_distance, c_psi, c_out>>

\* lines 113-114: mem = etas[:, memory_to_seed_from]
SelectMemory ==
  /\ pc = "mem"
  /\ LET col == Column(cfg.memory_to_seed_from, cfg.K)
     IN IF col = 0
        THEN Raise("IndexError") /\ UNCHANGED <<names, mem>>
        ELSE /\ mem' = col
             /\ names' = names \cup {"mem"}
             /\ pc' = "x0"
             /\ err' = err
  /\ UNCHANGED <<cfg, heap, ref, random_vector, output_vector, h, g, psi, it,
                 initial_distance, final_distance, c_psi, c_out>>

\* line 117: x0 = mem * generate_corruption_vector(N, corruption_level, device)
SeedInitialState ==
  /\ pc = "x0"
  /\ \E rv \in [Idx(cfg.N) -> DrawVals] :
       LET ov == generate_corruption_vector(rv, cfg.corruption_level)
       IN heap' = [heap EXCEPT !["x0"] = SeedVector(MemVec(heap, mem, cfg.N), ov)]
  /\ names' = names \cup {"x0"}
  /\ pc' = "psi_0"
  /\ UNCHANGED <<cfg, err, ref, mem, random_vector, output_vector, h, g, psi, it,
                 initial_distance, final_distance, c_psi, c_out>>

\* line 120
ComputePsi0 ==
  /\ pc = "psi_0"
  /\ heap' = [heap EXCEPT !["psi_0"] = Psi0(heap["x0"], cfg.beta)]
  /\ names' = names \cup {"psi_0"}
  /\ pc' = "P0"
  /\ UNCHANGED <<cfg, err, ref, mem, random_vector, output_vector, h, g, psi, it,
                 initial_distance, final_distance, c_psi, c_out>>

\* line 121: 1 / beta raises ZeroDivisionError when beta = 0
ComputeP0 ==
  /\ pc = "P0"
  /\ IF cfg.beta = 0
     THEN Raise("ZeroDivisionError") /\ UNCHANGED <<names, heap>>
     ELSE /\ heap' = [heap EXCEPT !["P0"] = InitP(heap["psi_0"], cfg.beta)]
          /\ names' = names \cup {"P0"}
          /\ pc' = "S0"
          /\ err' = err
  /\ UNCHANGED <<cfg, ref, mem, random_vector, output_vector, h, g, psi, it,
                 initial_distance, final_distance, c_psi, c_out>>

\* line 122: 1 / N ** 3 raises ZeroDivisionError when N = 0
ComputeS0 ==
  /\ pc = "S0"
  /\ IF cfg.N = 0
     THEN Raise("ZeroDivisionError") /\ UNCHANGED <<names, heap>>
     ELSE /\ heap' = [heap EXCEPT !["S0"] =
                        InitS(heap["etas"], heap["psi_0"], cfg.beta, cfg.N, cfg.K)]
          /\ names' = names \cup {"S0"}
          /\ pc' = "clone"
          /\ err' = err
  /\ UNCHANGED <<cfg, ref, mem, random_vector, output_vector, h, g, psi, it,
                 initial_distance, final_distance, c_psi, c_out>>

\* line 125: x, S, P = x0.clone(), S0.clone(), P0.clone()
CloneState ==
  /\ pc = "clone"
  /\ LET cx == Clone(heap, "x0", "x")
         cS == Clone(cx.heap, "S0", "S")
         cP == Clone(cS.heap, "P0", "P")
     IN /\ heap' = cP.heap
        /\ ref' = [ref EXCEPT !["x"] = cx.obj, !["S"] = cS.obj, !["P"] = cP.obj]
  /\ names' = names \cup {"x", "S", "P"}
  /\ pc' = "loop"
  /\ UNCHANGED <<cfg, err, mem, random_vector, output_vector, h, g, psi, it,
                 initial_distance, final_distance, c_psi, c_out>>

\* lines 128-135: range(NUM_STEPS) yields another index; the body runs
EulerStep ==
  /\ pc = "loop"
  /\ MoreIterations
  /\ LET r == LoopBody(heap, ref, cfg)
     IN /\ heap' = r.heap
        /\ h' = r.h /\ g' = r.g /\ psi' = r.psi
  /\ names' = names \cup {"h", "g", "psi"}
  /\ it' = it + 1
  /\ UNCHANGED <<cfg, pc, err, ref, mem, random_vector, output_vector,
                 initial_distance, final_distance, c_psi, c_out>>

\* line 128: range(NUM_STEPS) is exhausted
LoopExit ==
  /\ pc = "loop"
  /\ ~MoreIterations
  /\ pc' = "initial_distance"
  /\ UNCHANGED <<cfg, err, names, heap, ref, mem, random_vector, output_vector,
                 h, g, psi, it, initial_distance, final_distance, c_psi, c_out>>

\* line 138: initial_distance = torch.norm(torch.sign(x0) - mem)
InitialDistance ==
  /\ pc = "initial_distance"
  /\ initial_distance' = SqDist(heap["x0"], MemVec(heap, mem, cfg.N))
  /\ names' = names \cup {"initial_distance"}
  /\ pc' = "final_distance"
  /\ UNCHANGED <<cfg, err, heap, ref, mem, random_vector, output_vector,
                 h, g, psi, it, final_distance, c_psi, c_out>>

\* lines 139-142: final_distance = torch.norm(torch.sign(h) - mem), then the two
\* prints; h is the name the loop body bound, NameError if it never ran
FinalDistance ==
  /\ pc = "final_distance"
  /\ IF "h" \notin names
     THEN Raise("NameError") /\ UNCHANGED <<names, final_distance>>
     ELSE /\ final_distance' = SqDist(h, MemVec(heap, mem, cfg.N))
          /\ names' = names \cup {"final_distance"}
          /\ pc' = "done"
          /\ err' = err
  /\ UNCHANGED <<cfg, heap, ref, mem, random_vector, output_vector,
                 h, g, psi, it, initial_distance, c_psi, c_out>>

Next ==
  \/ GenerateMemories
  \/ SelectMemory
  \/ SeedInitialState
  \/ ComputePsi0
  \/ ComputeP0
  \/ ComputeS0
  \/ CloneState
  \/ EulerStep
  \/ LoopExit
  \/ InitialDistance
  \/ FinalDistance

Spec == Init /\ [][Next]_vars


\* ------------------------------------------- the contraction on its own
\* torch.einsum('im,jm,km,lm,kl->ij', etas, etas, etas, etas, c_psi) for an
\* arbitrary memory bank and an arbitrary matrix c_psi
InitContract ==
  /\ cfg \in [N : 1..MaxCN, K : 1..MaxCK, NUM_STEPS : {0}, dt : {Scale \div 4},
              beta : {1}, corruption_level : {0}, memory_to_seed_from : {0}]
  /\ pc = "contract"
  /\ err = ""
  /\ names = {"etas"}
  /\ \E e \in MemoryBanks(cfg.N, cfg.K) :
       heap = [o \in Objs |-> IF o = "etas" THEN e ELSE None]
  /\ ref = [n \in {"x", "S", "P"} |-> n]
  /\ mem = 0
  /\ random_vector = None /\ output_vector = None
  /\ h = None /\ g = None /\ psi = None
  /\ it = 0
  /\ initial_distance = 0 /\ final_distance = 0
  /\ c_psi \in [Idx(cfg.N) -> [Idx(cfg.N) -> PsiVals]]
  /\ c_out = None

ContractCall ==
  /\ pc = "contract"
  /\ c_out' = Contract(heap["etas"], c_psi, cfg.N, cfg.K)
  /\ pc' = "contracted"
  /\ UNCHANGED <<cfg, err, names, heap, ref, mem, random_vector, output_vector,
                 h, g, psi, it, initial_distance, final_distance, c_psi>>

SpecContract == InitContract /\ [][ContractCall]_vars

\* -------------------------------- generate_corruption_vector on its own
InitCorruption ==
  /\ cfg \in [N : 0..MaxLen, K : {1}, NUM_STEPS : {0}, dt : {Scale \div 4},
              beta : {1}, corruption_level : CorruptionArgs, memory_to_seed_from : {0}]
  /\ pc = "call"
  /\ err = ""
  /\ names = {}
  /\ heap = [o \in Objs |-> None]
  /\ ref = [n \in {"x", "S", "P"} |-> n]
  /\ mem = 0
  /\ random_vector = None /\ output_vector = None
  /\ h = None /\ g = None /\ psi = None
  /\ it = 0
  /\ initial_distance = 0 /\ final_distance = 0
  /\ c_psi = None /\ c_out = None

\* generate_corruption_vector(N, corruption_level, device), lines 54-60
CallGenerate ==
  /\ pc = "call"
  /\ \E rv \in [Idx(cfg.N) -> DrawVals] :
       /\ random_vector' = rv
       /\ output_vector' = generate_corruption_vector(rv, cfg.corruption_level)
  /\ pc' = "returned"
  /\ UNCHANGED <<cfg, err, names, heap, ref, mem, h, g, psi, it,
                 initial_distance, final_distance, c_psi, c_out>>

SpecCorruption == InitCorruption /\ [][CallGenerate]_vars


\* ================================================================ claims
\* Helpers of the claims' formulas (statements of the specification, not
\* models of code).

\* the configurations section 7 of the design accepts
ValidConfig(c) ==
  /\ c.N > 0 /\ c.K > 0 /\ c.NUM_STEPS >= 0 /\ c.dt > 0 /\ c.beta # 0
  /\ c.corruption_level >= 0 /\ c.corruption_level <= Scale
  /\ c.memory_to_seed_from >= 0 /\ c.memory_to_seed_from < c.K

Bound(n) == n \in names
Triple(hp, rf) == <<hp[rf["x"]], hp[rf["S"]], hp[rf["P"]]>>
InLoopOrAfter == pc \in {"loop", "initial_distance", "final_distance", "done"}
               \/ (pc = "error" /\ err = "NameError")
FinVec(v) == \A i \in DOMAIN v : IsFin(v[i])
FinMat(M) == \A i \in DOMAIN M : \A j \in DOMAIN M[i] : IsFin(M[i][j])
Symmetric(M) == \A i \in DOMAIN M : \A j \in DOMAIN M : M[i][j] = M[j][i]

\* the heap as line 125 leaves it, rebuilt from the initial-condition objects
StartHeap == [heap EXCEPT ![ref["x"]] = heap["x0"], ![ref["S"]] = heap["S0"],
                          ![ref["P"]] = heap["P0"]]

\* n successive iterations of the loop body
RECURSIVE Iterate(_, _, _, _)
Iterate(hp, rf, c, n) ==
  IF n = 0 THEN hp ELSE LoopBody(Iterate(hp, rf, c, n - 1), rf, c).heap

\* The update as section 4.3 writes it, every right-hand side over the one
\* pre-step snapshot (xv, Sv, Pv).
EulerSnapshot(xv, Sv, Pv, etas, c) ==
  LET hv == TanhVec(c.beta, xv)
      gv == TanhMat(c.beta, Sv)
      psiv == TanhMat(c.beta, Pv)
      sh == MatVec(Sv, hv)
      o == Outer(hv, hv)
      ct == Contract(etas, psiv, c.N, c.K)
  IN << Vec([i \in Idx(c.N) |-> Add(xv[i], Mul(c.dt, Add(Neg(xv[i]), sh[i])))], c.N),
        Mat([i \in Idx(c.N) |-> [j \in Idx(c.N) |->
              Add(Sv[i][j], Mul(c.dt, Add(Add(Neg(Sv[i][j]), o[i][j]), psiv[i][j])))]], c.N),
        Mat([i \in Idx(c.N) |-> [j \in Idx(c.N) |->
              Add(Pv[i][j], Mul(c.dt, Add(Add(Neg(Pv[i][j]),
                                              DivInt(ct[i][j], Pow3(c.N))), gv[i][j])))]], c.N) >>

\* The factorized contraction of section 4.3: v_m = sum_kl etas[k,m] etas[l,m] psi[k,l],
\* then sum_m etas[i,m] etas[j,m] v_m.
Factorized(etas, psiv, n, k) ==
  LET v == Vec([m \in Idx(k) |->
                  SumTo([kk \in Idx(n) |->
                    SumTo([l \in Idx(n) |-> MulInt(etas[kk][m] * etas[l][m], psiv[kk][l])],
                          n)], n)], k)
  IN Mat([i \in Idx(n) |-> [j \in Idx(n) |->
            SumTo([m \in Idx(k) |-> MulInt(etas[i][m] * etas[j][m], v[m])], k)]], n)

\* C1: for NUM_STEPS >= 0 the loop runs its body exactly NUM_STEPS times, one
\* iteration after another, and then ends: the count never passes NUM_STEPS, the
\* for statement goes on exactly while fewer than NUM_STEPS iterations have run
\* and can be left exactly when NUM_STEPS have, and the triple (x, S, P) found
\* right after the loop is the NUM_STEPS-fold iteration of the body on
\* (x0, S0, P0).
C1_ExactlyNumSteps ==
  (cfg.NUM_STEPS >= 0 /\ InLoopOrAfter) =>
    /\ it <= cfg.NUM_STEPS
    /\ pc = "loop" =>
         /\ MoreIterations <=> it < cfg.NUM_STEPS
         /\ (ENABLED LoopExit) <=> it = cfg.NUM_STEPS
    /\ pc # "loop" => it = cfg.NUM_STEPS
    /\ pc = "initial_distance" =>
         Triple(heap, ref) = Triple(Iterate(StartHeap, ref, cfg, cfg.NUM_STEPS), ref)

C1_Witness ==
  /\ pc = "initial_distance" /\ cfg.NUM_STEPS >= 2 /\ it = cfg.NUM_STEPS
  /\ cfg.N >= 2 /\ FinVec(x) /\ x # x0 /\ FinMat(S) /\ FinMat(P)

\* C2: every iteration takes (x, S, P) to the values EulerSnapshot computes from
\* the pre-step x, S and P alone: no right-hand side sees a value the same
\* iteration has already written.
C2_SnapshotUpdate ==
  [][(pc = "loop" /\ it' = it + 1) =>
       Triple(heap, ref)' = EulerSnapshot(x, S, P, heap["etas"], cfg)]_vars

C2_Witness ==
  /\ pc = "loop" /\ it >= 1 /\ cfg.N >= 2
  /\ FinVec(x) /\ FinMat(S) /\ FinMat(P)
  /\ x # x0 /\ S # S0 /\ P # P0
  /\ h # TanhVec(cfg.beta, x)

\* C3 (as claimed): a valid configuration with NUM_STEPS = 0 runs to its end
\* without an exception, with (x, S, P) = (x0, S0, P0) and h bound.
C3_ZeroSteps ==
  (ValidConfig(cfg) /\ cfg.NUM_STEPS = 0 /\ pc \in {"done", "error"}) =>
    /\ pc = "done" /\ err = ""
    /\ Triple(heap, ref) = <<x0, S0, P0>>
    /\ Bound("h")

\* C4 (as claimed): when the cell is done, h is tanh(beta * x) of the final x and
\* the final distance is that of the sign pattern of the final x.
C4_FinalActivation ==
  (ValidConfig(cfg) /\ pc = "done") =>
    /\ h = TanhVec(cfg.beta, x)
    /\ final_distance = SqDist(x, MemVec(heap, mem, cfg.N))

\* C5 (as claimed): a configuration section 7 rejects is stopped before anything
\* is computed: no memory bank, no initial condition, no iteration, and the cell
\* never runs to its end (whatever exception stops it counts as the validation
\* error).
C5_FailFast ==
  ~ValidConfig(cfg) =>
    /\ ~Bound("etas") /\ ~Bound("x0") /\ ~Bound("P0") /\ ~Bound("S0")
    /\ it = 0
    /\ pc # "done"

\* C6 (as claimed): the vector returned has `length` entries, each -1 or +1,
\* +1 exactly where the draw is <= 1 - corruption; corruption 0 gives all +1
\* and corruption 1 gives all -1 whatever was drawn.
C6_CorruptionVector ==
  pc = "returned" =>
    /\ Len(output_vector) = cfg.N
    /\ \A i \in Idx(cfg.N) :
         /\ output_vector[i] \in {-1, 1}
         /\ output_vector[i] = 1 <=> random_vector[i] <= Scale - cfg.corruption_level
    /\ cfg.corruption_level = 0 => \A i \in Idx(cfg.N) : output_vector[i] = 1
    /\ cfg.corruption_level = Scale => \A i \in Idx(cfg.N) : output_vector[i] = -1

\* C7 (as claimed): when the diagonal of P0 is not finite, every off-diagonal
\* entry of S and P and every entry of x is finite throughout the loop.
C7_DegeneracyConfined ==
  (ValidConfig(cfg) /\ InLoopOrAfter /\ \E i \in Idx(cfg.N) : ~IsFin(P0[i][i])) =>
    /\ \A i \in Idx(cfg.N) : IsFin(x[i])
    /\ \A i \in Idx(cfg.N) : \A j \in Idx(cfg.N) \ {i} :
         IsFin(S[i][j]) /\ IsFin(P[i][j])

\* C8: S0 and P0 are symmetric matrices, and S and P are symmetric in every
\* state of the loop, for every memory bank and every seed.
C8_Symmetric ==
  /\ Bound("P0") => Symmetric(P0)
  /\ Bound("S0") => Symmetric(S0)
  /\ InLoopOrAfter => Symmetric(S) /\ Symmetric(P)

C8_Witness ==
  /\ pc = "loop" /\ it >= 2 /\ cfg.N >= 2
  /\ FinMat(S) /\ FinMat(P) /\ S # S0 /\ P # P0
  /\ S[1][2] # 0 /\ P[1][2] # 0 /\ S[1][1] # S[1][2]
  /\ heap["etas"][1][1] # heap["etas"][2][1]

\* C9: the contraction the einsum computes equals the factorized form, entry by
\* entry, for every memory bank and every matrix over PsiVals.
C9_Factorization ==
  pc = "contracted" => c_out = Factorized(heap["etas"], c_psi, cfg.N, cfg.K)

C9_Witness ==
  /\ pc = "contracted" /\ cfg.N >= 2 /\ cfg.K >= 2
  /\ c_psi[1][2] # c_psi[2][1]
  /\ c_out[1][2] # 0 /\ c_out[1][1] # c_out[1][2]
  /\ \E i \in Idx(cfg.N) : heap["etas"][i][1] # heap["etas"][i][2]

\* C10: from the loop on, no step changes the memory bank (its entries stay
\* -1 or +1), the column mem shows, or the objects x0, S0, P0; the initial
\* distance is computed from that x0 and that mem.
C10_Frame ==
  [][(pc \in {"loop", "initial_distance", "final_distance"}) =>
       /\ heap'["etas"] = heap["etas"]
       /\ \A i \in Idx(cfg.N) : \A m \in Idx(cfg.K) : heap'["etas"][i][m] \in {-1, 1}
       /\ mem' = mem
       /\ x0' = x0 /\ S0' = S0 /\ P0' = P0
       /\ pc = "initial_distance" =>
            initial_distance' = SqDist(x0, MemVec(heap, mem, cfg.N))]_vars

C10_Witness ==
  /\ pc = "final_distance" /\ it >= 2 /\ cfg.N >= 2
  /\ FinVec(x) /\ x # x0 /\ S # S0 /\ P # P0
  /\ \A i \in Idx(cfg.N) : Abs(x0[i]) = Scale
  /\ initial_distance > 0

====
